---- MODULE Spec2Model ----
(***************************************************************************)
(* Deribit price aggregator: the Celery task create_all_prices, the        *)
(* concurrent fetch cycle get_prices / fetch_price, the write path         *)
(* insert_data, and the three read queries of crud.py.                     *)
(*                                                                         *)
(* One worker process runs one execution of create_all_prices at a time.   *)
(* Within an execution the per-ticker coroutines interleave at their       *)
(* await points; each state of a coroutine names the await it is           *)
(* suspended at.  The read queries of the API process come between any     *)
(* two steps of the worker.                                                *)
(*                                                                         *)
(* Spec is the fetch cycle with its retries and the reads between its      *)
(* steps.  SpecRead is the reads over the stores the write path builds     *)
(* from every upstream body at every reading of the database clock.        *)
(***************************************************************************)
EXTENDS Integers, Sequences, FiniteSets, TLC

VARIABLES
    store,      \* committed rows of index_prices_deribit, in commit order
    nextId,     \* next value of the id sequence (autoincrement)
    now,        \* index into Instants: the database clock
    taskState,  \* create_all_prices: idle | running | retry | success | failure
    retries,    \* self.request.retries of the current execution
    executions, \* executions of the task for the current beat trigger
    triggers,   \* beat triggers fired so far
    fpc,        \* per ticker: the await point of its fetch_price coroutine
    http,       \* per ticker: what the upstream call answered
    data,       \* per ticker: data_db built from the response body
    pending,    \* per ticker: the row flushed in its open transaction
    raised,     \* the ticker whose exception asyncio.gather propagates
    cycle,      \* outcome of the last finished execution of get_prices
    qres        \* the last query served by the API

vars == <<store, nextId, now, taskState, retries, executions, triggers,
          fpc, http, data, pending, raised, cycle, qres>>

workerVars == <<taskState, retries, executions, triggers,
                fpc, http, data, pending, raised, cycle>>

(***************************************************************************)
(* Bounds of the exploration.                                              *)
(***************************************************************************)
MaxTriggers == 1
MaxLimit == 2
MaxRows == 3

(***************************************************************************)
(* Program constants.                                                      *)
(***************************************************************************)
ticker_tuple == <<"btc_usd", "eth_usd">>
Ticker == {"btc_usd", "eth_usd"}
max_retries == 3
MICRO == 1000000
max_digits == 16
decimal_places == 8
numeric_precision == 16
numeric_scale == 8
MSK_OFFSET == 10800

None == -1
NoTicker == "none"

Min(a, b) == IF a <= b THEN a ELSE b
Range(s) == {s[i] : i \in 1..Len(s)}

(***************************************************************************)
(* Decimal prices: whole part, fractional part written with `places`       *)
(* digits.  A JSON null price has whole = None.                            *)
(***************************************************************************)
Dec(w, f, p) == [whole |-> w, frac |-> f, places |-> p]
NonePrice == Dec(None, 0, 0)

RECURSIVE Digits(_)
Digits(n) == IF n < 10 THEN 1 ELSE 1 + Digits(n \div 10)

RECURSIVE Pow10(_)
Pow10(k) == IF k = 0 THEN 1 ELSE 10 * Pow10(k - 1)

\* Field(max_digits=16, decimal_places=8) of DeribitIndex.price
price_field_ok(p) ==
    /\ p.whole # None
    /\ p.places <= decimal_places
    /\ Digits(p.whole) + p.places <= max_digits
    /\ Digits(p.whole) <= max_digits - decimal_places

\* Numeric(16, 8): the column rejects a whole part wider than 8 digits
numeric_fits(p) == Digits(p.whole) <= numeric_precision - numeric_scale

\* Numeric(16, 8): the column rounds the fraction to 8 places, half up
numeric_round(p) ==
    IF p.places <= numeric_scale THEN p
    ELSE LET cut == Pow10(p.places - numeric_scale)
             f   == (p.frac + cut \div 2) \div cut
         IN  IF f >= Pow10(numeric_scale)
             THEN Dec(p.whole + 1, f - Pow10(numeric_scale), numeric_scale)
             ELSE Dec(p.whole, f, numeric_scale)

\* timestamp_validator: microseconds to seconds
timestamp_validator(value) == value \div MICRO

(***************************************************************************)
(* What the upstream may answer.                                           *)
(***************************************************************************)
Body(p, t) == [price |-> p, timestamp |-> t]

\* well-formed bodies: result.index_price and usOut (microseconds)
UsOuts == {1999999, 301999999, 601999999}
OkBodies == {Body(Dec(51000, 0, 0), t) : t \in UsOuts}

\* no result.index_price, no usOut, a whole part of 9 digits, 9 decimal places
BadBodies == {Body(NonePrice, 1999999), Body(Dec(51000, 0, 0), None),
              Body(Dec(123456789, 0, 0), 1999999),
              Body(Dec(51000, 123456789, 9), 1999999)}

Bodies == OkBodies \cup BadBodies

\* the bodies one fetch cycle is explored with
CycleBodies == {Body(Dec(51000, 0, 0), 1999999)} \cup BadBodies

\* instants of the database clock, seconds since the epoch (UTC):
\* 2019-12-31T20:59:59Z, 2019-12-31T21:00:00Z, 2026-11-01T12:00:00Z
Instants == <<1577825999, 1577826000, 1793534400>>

NoData == [price |-> NonePrice, timestamp |-> None, ticker |-> NoTicker]
NoRow == [id |-> 0, ticker |-> NoTicker, price |-> NonePrice,
          timestamp |-> None, created_at |-> 0]
NoCycle == [outcome |-> "none", result |-> <<>>]


(***************************************************************************)
(* DateFilterStart.dt_object / DateFilterEnd.dt_end_object: the date parts *)
(* read in the local zone (Europe/Moscow, UTC+3 for the accepted years),   *)
(* converted to UTC.  Seconds since the epoch.                             *)
(***************************************************************************)
Parts(y, m, d, h, mi) == [year |-> y, month |-> m, day |-> d, hour |-> h, minute |-> mi]

IsLeap(y) == (y % 4 = 0 /\ y % 100 # 0) \/ y % 400 = 0

DaysInMonth(y, m) ==
    IF m = 2 THEN (IF IsLeap(y) THEN 29 ELSE 28)
    ELSE IF m \in {4, 6, 9, 11} THEN 30 ELSE 31

RECURSIVE DaysBeforeMonth(_, _)
DaysBeforeMonth(y, m) ==
    IF m = 1 THEN 0 ELSE DaysBeforeMonth(y, m - 1) + DaysInMonth(y, m - 1)

LeapsBefore(y) == (y - 1) \div 4 - (y - 1) \div 100 + (y - 1) \div 400

DaysBeforeYear(y) == 365 * (y - 1970) + LeapsBefore(y) - LeapsBefore(1970)

\* Field(ge=..., le=...) of the date parts: checked when the request is parsed
parts_fields_ok(p) ==
    /\ p.year \in 2016..2031
    /\ p.month \in 1..12
    /\ p.day \in 1..31
    /\ p.hour \in 0..23
    /\ p.minute \in 0..59

calendar_ok_FieldsOnly(p) == p.day <= 31
\* datetime(...) raises ValueError for a day the month does not have
calendar_ok(p) == p.day <= DaysInMonth(p.year, p.month)

\* the wall-clock reading of the parts, as seconds
naive_seconds(p) ==
    (((DaysBeforeYear(p.year) + DaysBeforeMonth(p.year, p.month) + p.day - 1) * 24
        + p.hour) * 60 + p.minute) * 60

dt_object_NoZone(p) == naive_seconds(p)
dt_object(p) == naive_seconds(p) - MSK_OFFSET

(***************************************************************************)
(* The three SELECTs of crud.py.  Rows that tie on the ORDER BY column     *)
(* come in any order, so each query has a set of possible answers.         *)
(***************************************************************************)
RowsOf(st, ticker) == {r \in Range(st) : r.ticker = ticker}

Take(q, n) == SubSeq(q, 1, Min(n, Len(q)))

\* every enumeration of S in descending order of timestamp
RECURSIVE order_by_timestamp_desc(_)
order_by_timestamp_desc(S) ==
    IF S = {} THEN {<<>>}
    ELSE UNION {{<<r>> \o q : q \in order_by_timestamp_desc(S \ {r})} :
                r \in {x \in S : \A y \in S : y.timestamp <= x.timestamp}}

\* every enumeration of S in ascending order of timestamp
RECURSIVE order_by_timestamp_asc(_)
order_by_timestamp_asc(S) ==
    IF S = {} THEN {<<>>}
    ELSE UNION {{<<r>> \o q : q \in order_by_timestamp_asc(S \ {r})} :
                r \in {x \in S : \A y \in S : x.timestamp <= y.timestamp}}

\* column.between(lo, hi)
between(v, lo, hi) == lo <= v /\ v <= hi

get_all_by_ticker_Asc(st, ticker, limit) ==
    {Take(q, limit) : q \in order_by_timestamp_asc(RowsOf(st, ticker))}
get_all_by_ticker(st, ticker, limit) ==
    {Take(q, limit) : q \in order_by_timestamp_desc(RowsOf(st, ticker))}

get_last_price_AnyTicker(st, ticker) ==
    {Take(q, 1) : q \in order_by_timestamp_desc(Range(st))}
\* session.scalar: the first row, or None (the empty sequence)
get_last_price(st, ticker) ==
    {Take(q, 1) : q \in order_by_timestamp_desc(RowsOf(st, ticker))}

get_by_date(st, ticker, start, end, limit) ==
    {Take(q, limit) :
        q \in order_by_timestamp_asc(
                {r \in RowsOf(st, ticker) :
                    between(r.created_at, dt_object(start), dt_object(end))})}


(***************************************************************************)
(* The write path.                                                         *)
(***************************************************************************)
\* NOT NULL columns, Numeric(16, 8): what the INSERT of the flush accepts
insert_accepts(d) ==
    /\ d.price.whole # None
    /\ d.timestamp # None
    /\ numeric_fits(d.price)

\* IndexPriceDeribit(**data) as the INSERT stores it: id from the sequence,
\* created_at from server_default now()
index_price(d, id, at) ==
    [id |-> id, ticker |-> d.ticker, price |-> numeric_round(d.price),
     timestamp |-> d.timestamp, created_at |-> at]

\* leaving `async with session.begin()`: COMMIT, or ROLLBACK on an exception
session_begin_exit_Always(st, row, exc) == Append(st, row)
session_begin_exit_Upsert(st, row, exc) ==
    IF exc THEN st
    ELSE IF \E i \in 1..Len(st) : st[i].ticker = row.ticker
         THEN [i \in 1..Len(st) |-> IF st[i].ticker = row.ticker THEN row ELSE st[i]]
         ELSE Append(st, row)
session_begin_exit(st, row, exc) == IF exc THEN st ELSE Append(st, row)

\* DeribitTimeZone.model_validate(row): the object handed back to the caller
model_validate(row) ==
    [id |-> row.id, ticker |-> row.ticker, price |-> row.price,
     timestamp |-> timestamp_validator(row.timestamp),
     created_at |-> row.created_at, utcoffset |-> MSK_OFFSET]

\* self.retry: a new execution is scheduled while retries < max_retries
retry_allowed_Inclusive(n) == n <= max_retries
retry_allowed(n) == n < max_retries

\* what the API answered: the request and the rows of the response
NoParts == Parts(0, 0, 0, 0, 0)

\* response_model=list[DeribitTimeZone]: every returned row is validated into
\* the response model, whose timestamp field carries timestamp_validator
serialize_response(rows) == [i \in 1..Len(rows) |-> model_validate(rows[i])]

\* rows are what the crud function returned, response is the body sent
Answer(op, t, l, sp, ep, status, rows) ==
    [op |-> op, ticker |-> t, limit |-> l, start |-> sp, end |-> ep,
     status |-> status, rows |-> rows, response |-> serialize_response(rows)]

NoQuery == Answer("none", NoTicker, 0, NoParts, NoParts, "none", <<>>)

Init ==
    /\ store = <<>>
    /\ nextId = 1
    /\ now = 1
    /\ taskState = "idle"
    /\ retries = 0
    /\ executions = 0
    /\ triggers = 0
    /\ fpc = [s \in Ticker |-> "idle"]
    /\ http = [s \in Ticker |-> 0]
    /\ data = [s \in Ticker |-> NoData]
    /\ pending = [s \in Ticker |-> NoRow]
    /\ raised = NoTicker
    /\ cycle = NoCycle
    /\ qres = NoQuery

\* no response of the API is being written: a query and its response are one
\* read of the store, and the next step is taken after the response is sent
Quiet == qres.op = "none"

\* the database clock advances
Tick ==
    /\ Quiet
    /\ now < Len(Instants)
    /\ now' = now + 1
    /\ UNCHANGED <<store, nextId, workerVars, qres>>

\* an execution that leaves out the tickers whose row the failed attempt
\* committed
StartExecution_SkipCommitted ==
    LET kept(s) == /\ pending[s] # NoRow
                   /\ \E i \in 1..Len(store) : store[i].id = pending[s].id
    IN  /\ taskState' = "running"
        /\ fpc' = [s \in Ticker |-> IF kept(s) THEN "done" ELSE "request"]
        /\ http' = [s \in Ticker |-> IF kept(s) THEN http[s] ELSE 0]
        /\ data' = [s \in Ticker |-> IF kept(s) THEN data[s] ELSE NoData]
        /\ pending' = [s \in Ticker |-> IF kept(s) THEN pending[s] ELSE NoRow]
        /\ raised' = NoTicker
        /\ cycle' = NoCycle
        /\ UNCHANGED <<store, nextId, now, qres>>

\* asyncio.run(get_prices()): gather starts one fetch_price per ticker, each
\* runs up to its session.get
StartExecution ==
    /\ taskState' = "running"
    /\ fpc' = [s \in Ticker |-> "request"]
    /\ http' = [s \in Ticker |-> 0]
    /\ data' = [s \in Ticker |-> NoData]
    /\ pending' = [s \in Ticker |-> NoRow]
    /\ raised' = NoTicker
    /\ cycle' = NoCycle
    /\ UNCHANGED <<store, nextId, now, qres>>

\* beat_schedule: the periodic trigger sends the task
BeatTrigger ==
    /\ Quiet
    /\ taskState \in {"idle", "success", "failure"}
    /\ triggers < MaxTriggers
    /\ triggers' = triggers + 1
    /\ retries' = 0
    /\ executions' = 1
    /\ StartExecution

\* the worker runs the retry message
RetryExecute ==
    /\ Quiet
    /\ taskState = "retry"
    /\ executions' = executions + 1
    /\ UNCHANGED <<retries, triggers>>
    /\ StartExecution

\* data_db = {'price': price, 'timestamp': timestamp, 'ticker': ticker}
data_db(b, s) == [price |-> b.price, timestamp |-> b.timestamp, ticker |-> s]

\* fetch_price raised: the first exception is the one gather propagates
Fail(s) ==
    /\ fpc' = [fpc EXCEPT ![s] = "failed"]
    /\ raised' = IF raised = NoTicker THEN s ELSE raised

\* session.get answers; raise_for_status; the body becomes data_db
HttpResponse(s, B) ==
    /\ Quiet
    /\ taskState = "running"
    /\ fpc[s] = "request"
    /\ \E status \in {200, 500} :
        /\ http' = [http EXCEPT ![s] = status]
        /\ IF status # 200
           THEN Fail(s) /\ UNCHANGED data
           ELSE \E b \in B :
                    /\ data' = [data EXCEPT ![s] = data_db(b, s)]
                    /\ fpc' = [fpc EXCEPT ![s] = "flush"]
                    /\ UNCHANGED raised
    /\ UNCHANGED <<store, nextId, now, taskState, retries, executions, triggers,
                   pending, cycle, qres>>

\* insert_data up to the end of the session.begin() block: the INSERT of
\* session.flush(), then model_validate, then the COMMIT is sent
Flush(s) ==
    /\ Quiet
    /\ taskState = "running"
    /\ fpc[s] = "flush"
    /\ \E db_ok \in (IF nextId <= MaxRows THEN BOOLEAN ELSE {FALSE}) :
        IF db_ok /\ insert_accepts(data[s])
        THEN LET row == index_price(data[s], nextId, Instants[now])
             IN  /\ nextId' = nextId + 1
                 /\ pending' = [pending EXCEPT ![s] = row]
                 /\ IF price_field_ok(data[s].price)
                    THEN /\ fpc' = [fpc EXCEPT ![s] = "commit"]
                         /\ UNCHANGED <<store, raised>>
                    ELSE /\ store' = session_begin_exit(store, row, TRUE)
                         /\ Fail(s)
        ELSE /\ Fail(s)
             /\ UNCHANGED <<store, nextId, pending>>
    /\ UNCHANGED <<now, taskState, retries, executions, triggers, http, data,
                   cycle, qres>>

\* the COMMIT answers
Commit(s) ==
    /\ Quiet
    /\ taskState = "running"
    /\ fpc[s] = "commit"
    /\ \E db_ok \in BOOLEAN :
        /\ store' = session_begin_exit(store, pending[s], ~db_ok)
        /\ IF db_ok
           THEN fpc' = [fpc EXCEPT ![s] = "close"] /\ UNCHANGED raised
           ELSE Fail(s)
    /\ UNCHANGED <<nextId, now, taskState, retries, executions, triggers, http,
                   data, pending, cycle, qres>>

\* the session and the response are closed, fetch_price returns object_db
Close(s) ==
    /\ Quiet
    /\ taskState = "running"
    /\ fpc[s] = "close"
    /\ fpc' = [fpc EXCEPT ![s] = "done"]
    /\ UNCHANGED <<store, nextId, now, taskState, retries, executions, triggers,
                   http, data, pending, raised, cycle, qres>>

\* gather has every result: get_prices returns them in ticker order
CycleReturn ==
    /\ Quiet
    /\ taskState = "running"
    /\ \A s \in Ticker : fpc[s] = "done"
    /\ cycle' = [outcome |-> "returned",
                 result |-> [i \in 1..Len(ticker_tuple) |->
                                model_validate(pending[ticker_tuple[i]])]]
    /\ taskState' = "success"
    /\ UNCHANGED <<store, nextId, now, retries, executions, triggers, fpc, http,
                   data, pending, raised, qres>>

\* rows whose COMMIT was in flight when the coroutine was cancelled
RECURSIVE Landed(_, _, _)
Landed(st, S, i) ==
    IF i > Len(ticker_tuple) THEN st
    ELSE Landed(IF ticker_tuple[i] \in S
                THEN session_begin_exit(st, pending[ticker_tuple[i]], FALSE)
                ELSE st, S, i + 1)

\* gather propagates the first exception; asyncio.run cancels the coroutines
\* still running and raises; the except branch calls self.retry
CycleRaise ==
    /\ Quiet
    /\ taskState = "running"
    /\ raised # NoTicker
    /\ \E S \in SUBSET {s \in Ticker : fpc[s] = "commit"} :
        store' = Landed(store, S, 1)
    /\ fpc' = [s \in Ticker |->
                IF fpc[s] \in {"request", "flush", "commit", "close"}
                THEN "cancelled" ELSE fpc[s]]
    /\ cycle' = [outcome |-> "raised", result |-> <<>>]
    /\ IF retry_allowed(retries)
       THEN taskState' = "retry" /\ retries' = retries + 1
       ELSE taskState' = "failure" /\ UNCHANGED retries
    /\ UNCHANGED <<nextId, now, executions, triggers, http, data, pending,
                   raised, qres>>

(***************************************************************************)
(* The read endpoints: get_db opens a session, the dependency runs one     *)
(* SELECT over the committed rows.                                         *)
(***************************************************************************)
\* a session that flushed the rows it read back after shaping them
get_db_exit_FlushShaped(st, rows) ==
    [i \in 1..Len(st) |->
        IF \E j \in 1..Len(rows) : rows[j] = st[i]
        THEN [st[i] EXCEPT !.timestamp = timestamp_validator(@)]
        ELSE st[i]]

\* get_db: leaving session.begin() commits a session that only ran a SELECT,
\* it holds no INSERT, UPDATE or DELETE
get_db_exit(st, rows) == st

QueryAll(t, l) ==
    /\ Quiet
    /\ \E db_ok \in BOOLEAN :
        IF db_ok
        THEN \E rows \in get_all_by_ticker(store, t, l) :
                /\ qres' = Answer("all", t, l, NoParts, NoParts, "ok", rows)
                /\ store' = get_db_exit(store, rows)
        ELSE /\ qres' = Answer("all", t, l, NoParts, NoParts, "error", <<>>)
             /\ store' = store
    /\ UNCHANGED <<nextId, now, workerVars>>

QueryLast(t) ==
    /\ Quiet
    /\ \E db_ok \in BOOLEAN :
        IF db_ok
        THEN \E rows \in get_last_price(store, t) :
                /\ qres' = Answer("last", t, 1, NoParts, NoParts, "ok", rows)
                /\ store' = get_db_exit(store, rows)
        ELSE /\ qres' = Answer("last", t, 1, NoParts, NoParts, "error", <<>>)
             /\ store' = store
    /\ UNCHANGED <<nextId, now, workerVars>>

QueryPeriod(t, sp, ep, l) ==
    /\ Quiet
    /\ IF ~(parts_fields_ok(sp) /\ parts_fields_ok(ep))
       THEN /\ qres' = Answer("period", t, l, sp, ep, "unprocessable", <<>>)
            /\ store' = store
       ELSE IF ~(calendar_ok(sp) /\ calendar_ok(ep))
       THEN /\ qres' = Answer("period", t, l, sp, ep, "value_error", <<>>)
            /\ store' = store
       ELSE \E db_ok \in BOOLEAN :
            IF db_ok
            THEN \E rows \in get_by_date(store, t, sp, ep, l) :
                    /\ qres' = Answer("period", t, l, sp, ep, "ok", rows)
                    /\ store' = get_db_exit(store, rows)
            ELSE /\ qres' = Answer("period", t, l, sp, ep, "error", <<>>)
                 /\ store' = store
    /\ UNCHANGED <<nextId, now, workerVars>>

\* the response is serialised and sent
Respond ==
    /\ ~Quiet
    /\ qres' = NoQuery
    /\ UNCHANGED <<store, nextId, now, workerVars>>

\* one fetch_price coroutine run from its request to its return with no other
\* step in between: the steps HttpResponse, Flush, Commit and Close of one
\* ticker, the store left as they leave it
Ingest(s, B) ==
    /\ Quiet
    /\ nextId <= MaxRows
    /\ \E b \in B :
        LET d   == data_db(b, s)
            row == index_price(d, nextId, Instants[now])
        IN  IF insert_accepts(d)
            THEN /\ nextId' = nextId + 1
                 /\ store' = session_begin_exit(store, row, ~price_field_ok(d.price))
            ELSE UNCHANGED <<store, nextId>>
    /\ UNCHANGED <<now, workerVars, qres>>

\* the range requests: start and end date parts
Period(sp, ep) == [start |-> sp, end |-> ep]
Periods == {Period(Parts(2020, 1, 1, 0, 0), Parts(2030, 1, 1, 0, 0)),
            Period(Parts(2020, 1, 1, 0, 0), Parts(2020, 1, 1, 0, 0)),
            Period(Parts(2020, 13, 1, 0, 0), Parts(2030, 1, 1, 0, 0)),
            Period(Parts(2021, 2, 30, 0, 0), Parts(2030, 1, 1, 0, 0)),
            Period(Parts(2020, 1, 1, 0, 0), Parts(2030, 4, 31, 0, 0))}

\* the range requests sent while a trigger is served
CyclePeriods == {Period(Parts(2020, 1, 1, 0, 0), Parts(2030, 1, 1, 0, 0)),
                 Period(Parts(2020, 13, 1, 0, 0), Parts(2030, 1, 1, 0, 0)),
                 Period(Parts(2021, 2, 30, 0, 0), Parts(2030, 1, 1, 0, 0))}

\* the fetch cycle with its retries and reads between its steps; the clock
\* reading does not change while the trigger is served
Next ==
    \/ BeatTrigger
    \/ RetryExecute
    \/ \E s \in Ticker : HttpResponse(s, CycleBodies)
    \/ \E s \in Ticker : Flush(s)
    \/ \E s \in Ticker : Commit(s)
    \/ \E s \in Ticker : Close(s)
    \/ CycleReturn
    \/ CycleRaise
    \/ \E t \in Ticker : QueryAll(t, MaxLimit)
    \/ \E t \in Ticker : QueryLast(t)
    \/ \E t \in Ticker, pd \in CyclePeriods :
            QueryPeriod(t, pd.start, pd.end, MaxLimit)
    \/ Respond

Spec == Init /\ [][Next]_vars

\* the reads over every store the write path builds from the upstream bodies
NextRead ==
    \/ Tick
    \/ \E s \in Ticker : Ingest(s, Bodies)
    \/ \E t \in Ticker, l \in 1..MaxLimit : QueryAll(t, l)
    \/ \E t \in Ticker : QueryLast(t)
    \/ \E t \in Ticker, pd \in Periods, l \in 1..MaxLimit :
            QueryPeriod(t, pd.start, pd.end, l)
    \/ Respond

SpecRead == Init /\ [][NextRead]_vars


(***************************************************************************)
(* Properties of the fetch cycle (specification Spec).                     *)
(***************************************************************************)
CycleEnded == cycle.outcome # "none"

\* the body has result.index_price and usOut, the price within its budget
WellFormed(d) ==
    /\ d.price.whole # None
    /\ d.timestamp # None
    /\ d.price.places <= 8
    /\ Digits(d.price.whole) <= 8

\* the row flushed by the fetch of s is among the committed rows
Persisted(s) ==
    /\ pending[s] # NoRow
    /\ \E i \in 1..Len(store) : store[i].id = pending[s].id

\* C1: a cycle in which eth_usd answers 500 and the btc_usd fetch returns its
\* persisted observation ends by returning one outcome per requested ticker;
\* it does not raise.
C1_PartialFailureReturns ==
    (CycleEnded /\ http["eth_usd"] = 500 /\ fpc["btc_usd"] = "done")
        => (cycle.outcome = "returned" /\ Len(cycle.result) = Len(ticker_tuple))

\* C2: when a cycle ends every ticker has been attempted, and every ticker
\* whose upstream call answered 200 with a well-formed body, and whose own
\* fetch did not fail, has its observation among the committed rows.
C2_SiblingsPersisted ==
    CycleEnded =>
        \A s \in Ticker :
            /\ fpc[s] # "idle"
            /\ (http[s] = 200 /\ WellFormed(data[s]) /\ fpc[s] # "failed")
                    => Persisted(s)

\* C3: the committed row of a fetch holds the upstream microsecond timestamp
\* integer-divided by 1,000,000, never the raw microsecond value.
C3_StoredTimestampInSeconds ==
    \A s \in Ticker : \A i \in 1..Len(store) :
        (pending[s] # NoRow /\ store[i].id = pending[s].id)
            => /\ store[i].timestamp = data[s].timestamp \div 1000000
               /\ store[i].timestamp # data[s].timestamp

\* C8: the store is append-only: every step keeps every committed row, with
\* every field, at its place; the committed rows only grow.
C8_AppendOnly ==
    [][/\ Len(store) <= Len(store')
       /\ \A i \in 1..Len(store) : store'[i] = store[i]]_vars

\* a retried trigger has committed two rows and a read is being answered
C8_Witness ==
    /\ Len(store) >= 2
    /\ store[1].ticker = store[2].ticker
    /\ retries >= 1
    /\ qres.op # "none"

\* C9: the step in which a fetch fails leaves the committed rows as they
\* were; the row a failed fetch flushed is not among the committed rows; a
\* step that changes the store appends the one row of a fetch whose COMMIT
\* was pending; no committed row lacks its price or its timestamp.
C9_FailedFetchPersistsNothing ==
    /\ [](\A s \in Ticker : fpc[s] = "failed" => ~Persisted(s))
    /\ [](\A i \in 1..Len(store) :
            store[i].price.whole # None /\ store[i].timestamp # None)
    /\ [][\A s \in Ticker :
            (fpc[s] # "failed" /\ fpc'[s] = "failed") => store' = store]_vars
    /\ [][store' # store =>
            \E s \in Ticker :
                /\ fpc[s] = "commit"
                /\ fpc'[s] \in {"close", "cancelled"}
                /\ store' = Append(store, pending[s])]_vars

\* a fetch failed after its INSERT was flushed, its sibling's row is committed
C9_Witness ==
    \E s, t \in Ticker :
        /\ s # t
        /\ fpc[s] = "failed"
        /\ pending[s] # NoRow
        /\ Persisted(t)

\* C10: one trigger leads to at most 4 executions, with at most 3 retries;
\* the task fails for good only in its 4th execution; an execution that
\* returned is not followed by another execution for the same trigger, nor
\* is the 4th failed one.
C10_BoundedRetry ==
    /\ [](executions <= 4 /\ retries <= 3)
    /\ [](taskState = "failure" => (executions = 4 /\ retries = 3))
    /\ [](taskState = "retry" => (executions = retries /\ cycle.outcome = "raised"))
    /\ [][(taskState = "success" \/ taskState = "failure") =>
            (executions' = executions \/ triggers' = triggers + 1)]_vars
    /\ [][(taskState = "running" /\ taskState' = "success")
            => cycle'.outcome = "returned"]_vars

\* the trigger was executed 4 times and the task failed for good
C10_Witness == taskState = "failure" /\ executions = 4 /\ retries = 3


(***************************************************************************)
(* Properties of the reads (specification SpecRead).                       *)
(***************************************************************************)
Answered(op) == qres.op = op /\ qres.status = "ok"

\* the committed rows of the ticker the answered request names
Asked == {r \in Range(store) : r.ticker = qres.ticker}

\* the rows of the answer are committed rows of the asked ticker, each once
RowsOfAsked ==
    /\ \A i \in 1..Len(qres.rows) : qres.rows[i] \in Asked
    /\ \A i, j \in 1..Len(qres.rows) : i # j => qres.rows[i] # qres.rows[j]

\* 2020-01-01T00:00 and 2030-01-01T00:00 in Europe/Moscow, as UTC epoch seconds
Utc2020 == Parts(2020, 1, 1, 0, 0) :> 1577826000
Utc2030 == Parts(2030, 1, 1, 0, 0) :> 1893445200
UtcOf == Utc2020 @@ Utc2030

\* the committed rows of the asked ticker ingested within the asked period
InPeriod ==
    {r \in Asked : /\ UtcOf[qres.start] <= r.created_at
                   /\ r.created_at <= UtcOf[qres.end]}

\* C4: a range query answers only rows of the asked ticker whose created_at
\* lies in the closed interval between the start and the end parts read in
\* the local zone, never more than limit rows, and as many as limit allows;
\* over a store of one row ingested now, the range 2020-01-01T00:00 to
\* 2030-01-01T00:00 answers exactly that row.
C4_RangeQuery ==
    Answered("period") =>
        /\ RowsOfAsked
        /\ \A i \in 1..Len(qres.rows) : qres.rows[i] \in InPeriod
        /\ Len(qres.rows) <= qres.limit
        /\ Len(qres.rows) = Min(qres.limit, Cardinality(InPeriod))
        /\ (/\ Len(store) = 1
            /\ store[1].ticker = qres.ticker
            /\ store[1].created_at = 1793534400
            /\ qres.start = Parts(2020, 1, 1, 0, 0)
            /\ qres.end = Parts(2030, 1, 1, 0, 0)) => qres.rows = store

\* the range 2020..2030 answered the one row of the store, ingested now
C4_Witness ==
    /\ Answered("period")
    /\ Len(store) = 1
    /\ store[1].created_at = 1793534400
    /\ qres.start = Parts(2020, 1, 1, 0, 0)
    /\ qres.end = Parts(2030, 1, 1, 0, 0)
    /\ qres.rows = store

\* C5: the rows of a range answer are in ascending order of created_at, and
\* every matching row left out was ingested no earlier than the rows given
\* (stated for stores whose rows of the asked ticker differ in timestamp and
\* in created_at, where no order is left to chance).
C5_RangeAscendingByIngestion ==
    (/\ Answered("period")
     /\ \A r, q \in Asked :
            r # q => (r.timestamp # q.timestamp /\ r.created_at # q.created_at)) =>
        /\ \A i, j \in 1..Len(qres.rows) :
              i < j => qres.rows[i].created_at <= qres.rows[j].created_at
        /\ \A r \in InPeriod : \A i \in 1..Len(qres.rows) :
              r \notin Range(qres.rows) => qres.rows[i].created_at <= r.created_at

\* C6: the latest query answers a committed row of the asked ticker whose
\* timestamp no row of that ticker exceeds, whatever the other tickers hold;
\* for a ticker without rows it answers None, with success.
C6_Latest ==
    Answered("last") =>
        IF Asked = {}
        THEN qres.rows = <<>>
        ELSE /\ Len(qres.rows) = 1
             /\ qres.rows[1] \in Asked
             /\ \A r \in Asked : r.timestamp <= qres.rows[1].timestamp

\* the asked ticker holds two rows of different timestamps and the other
\* ticker a row newer than both; the answer is the newer of the two
C6_Witness ==
    /\ Answered("last")
    /\ Cardinality({r.timestamp : r \in Asked}) = 2
    /\ \E o \in Range(store) : /\ o.ticker # qres.ticker
                               /\ \A r \in Asked : r.timestamp < o.timestamp
    /\ Len(qres.rows) = 1
    /\ \A r \in Asked : r.timestamp <= qres.rows[1].timestamp

\* C7: the list query answers exactly min(limit, n) committed rows of the
\* asked ticker, in descending order of timestamp, and no row left out is
\* newer than a row given; with rows observed at T, T+300 and T+600 seconds
\* and limit 2 the answer is [T+600, T+300].
C7_ListBySymbol ==
    Answered("all") =>
        /\ RowsOfAsked
        /\ Len(qres.rows) = Min(qres.limit, Cardinality(Asked))
        /\ \A i, j \in 1..Len(qres.rows) :
              i < j => qres.rows[i].timestamp >= qres.rows[j].timestamp
        /\ \A r \in Asked : \A i \in 1..Len(qres.rows) :
              r \notin Range(qres.rows) => r.timestamp <= qres.rows[i].timestamp

\* btc_usd holds the rows observed at 1, 301 and 601 seconds, ingested in
\* another order; limit 2 answered [601, 301]
C7_Witness ==
    /\ Answered("all")
    /\ qres.ticker = "btc_usd"
    /\ qres.limit = 2
    /\ Len(store) = 3
    /\ [i \in 1..3 |-> store[i].timestamp \div 1000000] = <<301, 601, 1>>
    /\ \A i \in 1..3 : store[i].ticker = "btc_usd"
    /\ [i \in 1..Len(qres.rows) |-> qres.rows[i].timestamp \div 1000000] = <<601, 301>>


\* date parts that name no day of the calendar: month 13, February 30,
\* April 31
NoSuchDay == {Parts(2020, 13, 1, 0, 0), Parts(2021, 2, 30, 0, 0),
              Parts(2030, 4, 31, 0, 0)}

\* C11: a range request whose start or end parts name no calendar day is
\* refused with a date error and no rows; it is never answered with success,
\* and the SELECT is not reached (the answer is never the store's own error).
C11_InvalidDateParts ==
    (qres.op = "period" /\ (qres.start \in NoSuchDay \/ qres.end \in NoSuchDay)) =>
        /\ qres.status \in {"unprocessable", "value_error"}
        /\ qres.rows = <<>>

\* February 30 was refused while the store held a row of the asked ticker
\* ingested inside 2021-03-01 .. 2030-01-01
C11_Witness ==
    /\ qres.op = "period"
    /\ qres.start = Parts(2021, 2, 30, 0, 0)
    /\ qres.status = "value_error"
    /\ \E r \in Asked : r.created_at = 1793534400


\* C12: every record of a successful response carries the timestamp its row
\* has in the store: shaping a stored row for display leaves the timestamp
\* as it is.
C12_ReadsArePureProjections ==
    qres.status = "ok" =>
        \A i \in 1..Len(qres.rows) :
            qres.response[i].timestamp = qres.rows[i].timestamp


\* C13: a step that answers a request, with rows or with an error, or that
\* sends the response, leaves the committed rows, the id sequence and the
\* inserts in flight as they were, also while a fetch cycle is running.
C13_QueriesAreReadOnly ==
    [][qres' # qres =>
        /\ store' = store
        /\ nextId' = nextId
        /\ pending' = pending]_vars

\* rows were served while a fetch cycle was running with an insert flushed and
\* not yet committed
C13_Witness ==
    /\ qres.status = "ok"
    /\ Len(qres.rows) > 0
    /\ taskState = "running"
    /\ \E s \in Ticker : fpc[s] = "commit"


\* the committed rows of ticker s
Committed(st, s) == {r \in Range(st) : r.ticker = s}

\* C14: a step commits for a ticker at most the one row its fetch flushed in
\* the running execution, and only once; the execution of a retry starts the
\* fetch of every ticker anew, the tickers committed in the failed attempt
\* included; so a ticker has at most as many rows as executions were started,
\* at most 4 for each trigger.
C14_RetryCommitsAgain ==
    /\ [][\A s \in Ticker :
            Committed(store', s) # Committed(store, s) =>
                /\ fpc[s] = "commit"
                /\ ~Persisted(s)
                /\ Committed(store', s) = Committed(store, s) \cup {pending[s]}]_vars
    /\ [][(taskState = "retry" /\ taskState' = "running") =>
            \A s \in Ticker : fpc'[s] = "request" /\ pending'[s] = NoRow]_vars
    /\ [](\A s \in Ticker :
            /\ Cardinality(Committed(store, s)) <=
                    IF triggers = 0 THEN 0 ELSE 4 * (triggers - 1) + executions
            /\ Cardinality(Committed(store, s)) <= 4 * triggers)

\* the third execution of one trigger committed a third btc_usd row; the three
\* rows have the same ticker and timestamp
C14_Witness ==
    /\ triggers = 1
    /\ executions = 3
    /\ Cardinality(Committed(store, "btc_usd")) = 3
    /\ \A r, q \in Committed(store, "btc_usd") : r.timestamp = q.timestamp

====
